---- MODULE Spec2Model ----
(***************************************************************************)
(* DataBrew dashboard: the App shell (authentication gate, page router,    *)
(* logout), the session store behind /login, /logout and /verify, the      *)
(* insight generation widgets and the data-fetching components.            *)
(*                                                                         *)
(* Every specification below starts in Init and moves the variables of    *)
(* the subsystems it is about; the variables of the other subsystems keep  *)
(* their initial values.                                                   *)
(***************************************************************************)
EXTENDS Integers, Sequences, FiniteSets, Bags, TLC

\* ---------------------------------------------------------------- bounds
MaxTokens == 2        \* tokens handed out by login and signup in one run
MaxLogoutCalls == 2   \* invocations of handleLogout in one run
MaxRequests == 3      \* requests sent by one mounted component
MaxCalls == 2         \* requests the backend handles in one run
MaxWrites == 3        \* insert, update and delete requests served in one run
MaxPageActions == 5   \* clicks and entries of the user on the Ingredients page
MaxInsightRequests == 2  \* /predictive-insights requests in one run

\* ------------------------------------------------------------- constants
NoToken == 0          \* localStorage.getItem("authToken") === null
NoUser == "null"      \* localStorage.getItem("user") === null

Users == {"owner"}

\* Sidebar menu ids
menuItems ==
  <<"dashboard", "sales", "inventory", "ingredients", "staff",
    "ai-insights", "settings">>

MenuIds == {menuItems[i] : i \in 1..Len(menuItems)}

VARIABLES
  \* --- App component state
  activePage,       \* useState("dashboard")
  isAuthenticated,  \* useState(() => !!localStorage.getItem("authToken"))
  authView,         \* useState("login")
  isSidebarOpen,    \* useState(false)
  showDropdown,     \* Header: useState(false)
  localStorage,     \* [authToken, user]
  logouts,          \* invocations of handleLogout, in call order
  \* --- session store of the backend
  sessions,         \* tokens that validate
  issued,           \* tokens ever issued by POST /login
  revoked,          \* tokens revoked by POST /logout
  nextToken,        \* next fresh token value
  \* --- the mounted data-fetching component (one instance at a time)
  mounted,          \* which component is mounted, "none" before the mount
  loading,          \* useState(true)
  generating,       \* useState(false)
  error,            \* PredictiveInsightsPanel: useState(null)
  alerts,           \* number of alert() dialogs raised
  data,             \* the fetched state: metrics, salesData, insights, ...
  liveInsights,     \* AIInsightsPage: useState(aiInsights)
  sourceData,       \* AIInsightsPage: useState(null)
  period,           \* SalesChart, CashFlowChart: useState("month")
  reqs,             \* requests of the component, in the order sent
  triggers,         \* mounts and user actions (clicks) of the component so far
  \* --- request handlers of the backend
  calls,            \* the requests received, each with its handler's position
  \* --- the database and its CRUD endpoints
  db,               \* the tables: ingredients, products, product_ingredients, transactions
  writes,           \* insert, update and delete requests served so far
  lastEndpoint,     \* the endpoint of the request served last
  \* --- IngredientsPage
  ingredientsPage,  \* the component's state (useState values), by name
  pending,          \* bag of the page's requests in flight
  pageAlerts,       \* number of alert() dialogs raised by the page
  pageActions,      \* clicks and entries of the user so far
  \* --- /predictive-insights
  pipelines,        \* the requests received, each with the steps it has run
  llmRequests       \* the calls the hosted LLM has received, by calling request

appVars ==
  <<activePage, isAuthenticated, authView, isSidebarOpen, showDropdown,
    localStorage, logouts>>
authVars == <<sessions, issued, revoked, nextToken>>
uiVars ==
  <<mounted, loading, generating, error, alerts, data, liveInsights,
    sourceData, period, reqs, triggers>>
backendVars == <<calls>>
dbVars == <<db, writes, lastEndpoint>>
pageVars == <<ingredientsPage, pending, pageAlerts, pageActions>>
insightVars == <<pipelines, llmRequests>>
vars ==
  <<appVars, authVars, uiVars, backendVars, dbVars, pageVars, insightVars>>

\* ----------------------------------------------------------- App: render
\* JSON.stringify(user): the stored value is the JSON text, not the object
JSONstringify(user) == "{\"name\":\"" \o user \o "\"}"

\* the switch of renderPage
renderPage(page) ==
  CASE page = "dashboard" -> "DashboardPage"
    [] page = "sales" -> "SalesAnalyticsPage"
    [] page = "inventory" -> "InventoryPage"
    [] page = "ingredients" -> "IngredientsPage"
    [] page = "staff" -> "StaffManagementPage"
    [] page = "ai-insights" -> "AIInsightsPage"
    [] page = "settings" -> "SettingsPage"
    [] OTHER -> "DashboardPage"

\* AppRender with the authentication gate applied to the login view only
AppRenderGateLoginOnly(auth, view, page) ==
  IF ~auth /\ view = "login"
    THEN {"LoginPage"}
    ELSE {"Sidebar", "Header", renderPage(page)}

\* the components App returns for a given state
AppRender(auth, view, page) ==
  IF ~auth
    THEN IF view = "login" THEN {"LoginPage"} ELSE {"SignupPage"}
    ELSE {"Sidebar", "Header", renderPage(page)}

Rendered == AppRender(isAuthenticated, authView, activePage)

PageComponents ==
  {"DashboardPage", "SalesAnalyticsPage", "InventoryPage", "IngredientsPage",
   "StaffManagementPage", "AIInsightsPage", "SettingsPage"}

\* -------------------------------------------------- backend session store
\* GET /verify with bearer token t
Verify(t) == t \in sessions

\* POST /login: a fresh token is issued and its session stored
AuthLogin(t) ==
  /\ t = nextToken
  /\ nextToken <= MaxTokens
  /\ sessions' = sessions \cup {t}
  /\ issued' = issued \cup {t}
  /\ nextToken' = nextToken + 1
  /\ UNCHANGED revoked

\* AuthLogout that drops every session instead of the one of t
AuthLogoutAll(t) ==
  /\ sessions' = {}
  /\ revoked' = IF t \in sessions THEN revoked \cup {t} ELSE revoked
  /\ UNCHANGED <<issued, nextToken>>

\* POST /logout with bearer token t: the session of t, if any, is deleted
AuthLogout(t) ==
  /\ sessions' = sessions \ {t}
  /\ revoked' = IF t \in sessions THEN revoked \cup {t} ELSE revoked
  /\ UNCHANGED <<issued, nextToken>>

LogoutStatus(t) == IF t \in sessions THEN 200 ELSE 401

\* ------------------------------------------------------------ App: state
InitialAuth(storage) == storage.authToken # NoToken

InitApp ==
  /\ activePage = "dashboard"
  /\ \E t \in {NoToken, 1} :
       /\ localStorage =
            [authToken |-> t,
             user |-> IF t = NoToken THEN NoUser ELSE JSONstringify("owner")]
       /\ issued = IF t = NoToken THEN {} ELSE {t}
       /\ nextToken = IF t = NoToken THEN 1 ELSE 2
       /\ sessions = issued
  /\ isAuthenticated = InitialAuth(localStorage)
  /\ authView = "login"
  /\ isSidebarOpen = FALSE
  /\ showDropdown = FALSE
  /\ logouts = <<>>
  /\ revoked = {}

\* handleLogin that forgets to persist the token
handleLoginNoStore(token, user) ==
  /\ isAuthenticated' = TRUE
  /\ UNCHANGED localStorage

\* handleLogin(token, user)
handleLogin(token, user) ==
  /\ localStorage' = [authToken |-> token, user |-> JSONstringify(user)]
  /\ isAuthenticated' = TRUE

\* handleSignup(token, user)
handleSignup(token, user) ==
  /\ localStorage' = [authToken |-> token, user |-> JSONstringify(user)]
  /\ isAuthenticated' = TRUE

\* LoginPage: POST /login succeeded, onLogin(token, user)
LoginSubmit ==
  /\ UNCHANGED <<uiVars, backendVars, dbVars, pageVars, insightVars>>
  /\ ~isAuthenticated
  /\ authView = "login"
  /\ \E u \in Users :
       /\ AuthLogin(nextToken)
       /\ handleLogin(nextToken, u)
  /\ UNCHANGED <<activePage, authView, isSidebarOpen, showDropdown, logouts>>

\* SignupPage: onSignup(token, user); the token is not one of POST /login
SignupSubmit ==
  /\ UNCHANGED <<uiVars, backendVars, dbVars, pageVars, insightVars>>
  /\ ~isAuthenticated
  /\ authView = "signup"
  /\ nextToken <= MaxTokens
  /\ \E u \in Users : handleSignup(nextToken, u)
  /\ nextToken' = nextToken + 1
  /\ UNCHANGED <<activePage, authView, isSidebarOpen, showDropdown, logouts,
                 sessions, issued, revoked>>

\* onSwitchToSignup / onSwitchToLogin
SwitchToSignup ==
  /\ UNCHANGED <<uiVars, backendVars, dbVars, pageVars, insightVars>>
  /\ ~isAuthenticated
  /\ authView = "login"
  /\ authView' = "signup"
  /\ UNCHANGED <<activePage, isAuthenticated, isSidebarOpen, showDropdown,
                 localStorage, logouts, authVars>>

SwitchToLogin ==
  /\ UNCHANGED <<uiVars, backendVars, dbVars, pageVars, insightVars>>
  /\ ~isAuthenticated
  /\ authView = "signup"
  /\ authView' = "login"
  /\ UNCHANGED <<activePage, isAuthenticated, isSidebarOpen, showDropdown,
                 localStorage, logouts, authVars>>

\* SidebarSelect that also offers an id the switch of renderPage does not know
SidebarSelectUnknownId ==
  /\ UNCHANGED <<uiVars, backendVars, dbVars, pageVars, insightVars>>
  /\ isAuthenticated
  /\ \E id \in MenuIds \cup {"reports"} : activePage' = id
  /\ isSidebarOpen' = FALSE
  /\ UNCHANGED <<isAuthenticated, authView, showDropdown, localStorage,
                 logouts, authVars>>

\* Sidebar: onPageChange(item.id)
SidebarSelect ==
  /\ UNCHANGED <<uiVars, backendVars, dbVars, pageVars, insightVars>>
  /\ isAuthenticated
  /\ \E i \in 1..Len(menuItems) : activePage' = menuItems[i]
  /\ isSidebarOpen' = FALSE
  /\ UNCHANGED <<isAuthenticated, authView, showDropdown, localStorage,
                 logouts, authVars>>

\* Header: the menu button, onMenuClick
MenuClick ==
  /\ UNCHANGED <<uiVars, backendVars, dbVars, pageVars, insightVars>>
  /\ isAuthenticated
  /\ isSidebarOpen' = ~isSidebarOpen
  /\ UNCHANGED <<activePage, isAuthenticated, authView, showDropdown,
                 localStorage, logouts, authVars>>

\* Header: the profile button toggles the dropdown
ToggleDropdown ==
  /\ UNCHANGED <<uiVars, backendVars, dbVars, pageVars, insightVars>>
  /\ isAuthenticated
  /\ showDropdown' = ~showDropdown
  /\ UNCHANGED <<activePage, isAuthenticated, authView, isSidebarOpen,
                 localStorage, logouts, authVars>>

\* handleLogout up to its await: the token is read once, and either the
\* POST /logout is sent or, without a token, the storage is cleared at once
handleLogoutStart ==
  LET token == localStorage.authToken IN
  IF token # NoToken
    THEN /\ logouts' =
              Append(logouts, [pc |-> "fetching", token |-> token, status |-> 0])
         /\ UNCHANGED <<localStorage, isAuthenticated, authView>>
    ELSE /\ localStorage' = [authToken |-> NoToken, user |-> NoUser]
         /\ isAuthenticated' = FALSE
         /\ authView' = "login"
         /\ UNCHANGED logouts

\* Sidebar: the Logout button, onClick={onLogout}
SidebarLogout ==
  /\ UNCHANGED <<uiVars, backendVars, dbVars, pageVars, insightVars>>
  /\ isAuthenticated
  /\ Len(logouts) < MaxLogoutCalls
  /\ handleLogoutStart
  /\ UNCHANGED <<activePage, isSidebarOpen, showDropdown, authVars>>

\* Header: Sign out closes the dropdown and calls onLogout
HeaderSignOut ==
  /\ UNCHANGED <<uiVars, backendVars, dbVars, pageVars, insightVars>>
  /\ isAuthenticated
  /\ showDropdown
  /\ Len(logouts) < MaxLogoutCalls
  /\ showDropdown' = FALSE
  /\ handleLogoutStart
  /\ UNCHANGED <<activePage, isSidebarOpen, authVars>>

\* the backend handles the POST /logout of invocation i and answers
LogoutDelivered(i) ==
  /\ UNCHANGED <<uiVars, backendVars, dbVars, pageVars, insightVars>>
  /\ logouts[i].pc = "fetching"
  /\ logouts' =
       [logouts EXCEPT ![i].pc = "responded",
                       ![i].status = LogoutStatus(logouts[i].token)]
  /\ AuthLogout(logouts[i].token)
  /\ UNCHANGED <<activePage, isAuthenticated, authView, isSidebarOpen,
                 showDropdown, localStorage>>

\* the fetch of invocation i rejects: the request or its answer is lost
LogoutNetworkError(i) ==
  /\ UNCHANGED <<uiVars, backendVars, dbVars, pageVars, insightVars>>
  /\ logouts[i].pc \in {"fetching", "responded"}
  /\ logouts' = [logouts EXCEPT ![i].pc = "threw"]
  /\ UNCHANGED <<activePage, isAuthenticated, authView, isSidebarOpen,
                 showDropdown, localStorage, authVars>>

\* handleLogoutFinish that clears the session only after an OK answer
handleLogoutFinishOkOnly(i) ==
  /\ UNCHANGED <<uiVars, backendVars, dbVars, pageVars, insightVars>>
  /\ logouts[i].pc \in {"responded", "threw"}
  /\ logouts' = [logouts EXCEPT ![i].pc = "done"]
  /\ IF logouts[i].pc = "responded" /\ logouts[i].status = 200
       THEN /\ localStorage' = [authToken |-> NoToken, user |-> NoUser]
            /\ isAuthenticated' = FALSE
            /\ authView' = "login"
            /\ showDropdown' = FALSE
       ELSE UNCHANGED <<localStorage, isAuthenticated, authView, showDropdown>>
  /\ UNCHANGED <<activePage, isSidebarOpen, authVars>>

\* handleLogout after its await (the catch only logs): clear storage and state
handleLogoutFinish(i) ==
  /\ UNCHANGED <<uiVars, backendVars, dbVars, pageVars, insightVars>>
  /\ logouts[i].pc \in {"responded", "threw"}
  /\ logouts' = [logouts EXCEPT ![i].pc = "done"]
  /\ localStorage' = [authToken |-> NoToken, user |-> NoUser]
  /\ isAuthenticated' = FALSE
  /\ authView' = "login"
  \* the Header is unmounted with the dashboard, its state is dropped
  /\ showDropdown' = FALSE
  /\ UNCHANGED <<activePage, isSidebarOpen, authVars>>

\* ------------------------------------------------ data-fetching components
\* The router of App renders one page at a time and the components share no
\* store, so one mounted component instance is followed from its mount on.

\* values held in component state; every value has the same three fields
Val(tag) == [tag |-> tag, period |-> "", id |-> 0]

Null == Val("null")            \* useState(null)
Undefined == Val("undefined")  \* a field the response body does not have
EmptyList == Val("empty")      \* useState([])
Defaults == Val("default")     \* the literal initial object of useState({...})
Fallback == Val("fallback")    \* the literal list of a catch block
aiInsights == Val("static")    \* the constant list of AIInsightsPage

NoError == "null"

\* what a request can come back with: a 2xx with the documented body, a 2xx
\* whose body lacks the field the component reads, a non-2xx status, a
\* rejected fetch, a 2xx whose body is not JSON
ReplyKinds == {"ok", "ok_unshaped", "http_error", "network_error", "bad_json"}

SimplePeriods == <<"today", "week", "month">>
CashFlowPeriods == <<"today", "week", "month", "custom">>

NewRequest(op, per) ==
  [op |-> op, period |-> per, st |-> "sent", reply |-> "none"]

\* apiRequest and apiService.generateInsights: a rejected fetch is rethrown,
\* !response.ok throws, and response.json() rejects on a body that is not JSON
apiRequestThrows(reply) == reply \in {"http_error", "network_error", "bad_json"}

\* the parsed body of the answer to request i, and the field read from it
ResponseBody(i) ==
  [tag |-> IF reqs[i].reply = "ok" THEN "body" ELSE "unshaped",
   period |-> reqs[i].period, id |-> i]

ResponseField(i) ==
  IF reqs[i].reply = "ok"
    THEN [tag |-> "fetched", period |-> reqs[i].period, id |-> i]
    ELSE Undefined

\* response.insights.map(...) of handleGenerateInsights: the mapped cards
MappedInsights(i) == [tag |-> "mapped", period |-> "", id |-> i]

\* forecast_next_days.map(...) of fetchForecast: the chart points
ChartData(i) == [tag |-> "chart", period |-> "", id |-> i]

\* state of the model before any component is mounted
IdleUi ==
  /\ mounted = "none"
  /\ loading = FALSE
  /\ generating = FALSE
  /\ error = NoError
  /\ alerts = 0
  /\ data = Null
  /\ liveInsights = Null
  /\ sourceData = Null
  /\ period = ""
  /\ reqs = <<>>
  /\ triggers = 0

\* first render of component c and its mount effect, which sends the fetch
Mount(c, initData, per) ==
  /\ mounted = "none"
  /\ mounted' = c
  /\ loading' = TRUE
  /\ generating' = FALSE
  /\ error' = NoError
  /\ data' = initData
  /\ period' = per
  /\ reqs' = <<NewRequest("fetch", per)>>
  /\ triggers' = 1
  /\ UNCHANGED alerts
  /\ UNCHANGED <<appVars, authVars, backendVars, dbVars, pageVars, insightVars>>

\* the network and the server settle request i
ServerReplies(i) ==
  /\ reqs[i].st = "sent"
  /\ \E k \in ReplyKinds : reqs' = [reqs EXCEPT ![i].st = "replied", ![i].reply = k]
  /\ UNCHANGED <<mounted, loading, generating, error, alerts, data,
                 liveInsights, sourceData, period, triggers>>
  /\ UNCHANGED <<appVars, authVars, backendVars, dbVars, pageVars, insightVars>>

\* the continuation of request i has run
Settled(i) ==
  /\ reqs' = [reqs EXCEPT ![i].st = "done", ![i].reply = "none"]
  /\ UNCHANGED <<mounted, period, triggers>>
  /\ UNCHANGED <<appVars, authVars, backendVars, dbVars, pageVars, insightVars>>

Awaiting(c, op, i) ==
  /\ mounted = c
  /\ reqs[i].op = op
  /\ reqs[i].st = "replied"

\* FetchKeepingState that calls setLoading(false) at the end of the try block
FetchKeepingStateNoFinally(c, i, value) ==
  /\ Awaiting(c, "fetch", i)
  /\ data' = IF apiRequestThrows(reqs[i].reply) THEN data ELSE value
  /\ loading' = IF apiRequestThrows(reqs[i].reply) THEN loading ELSE FALSE
  /\ Settled(i)
  /\ UNCHANGED <<generating, error, alerts, liveInsights, sourceData>>

\* try { set(value) } catch { console.error } finally { setLoading(false) }
FetchKeepingState(c, i, value) ==
  /\ Awaiting(c, "fetch", i)
  /\ data' = IF apiRequestThrows(reqs[i].reply) THEN data ELSE value
  /\ loading' = FALSE
  /\ Settled(i)
  /\ UNCHANGED <<generating, error, alerts, liveInsights, sourceData>>

\* --- DashboardPage
MountDashboardPage ==
  /\ Mount("DashboardPage", Defaults, "")
  /\ UNCHANGED <<liveInsights, sourceData>>

fetchMetrics(i) == FetchKeepingState("DashboardPage", i, ResponseBody(i))

\* --- SalesAnalyticsPage
MountSalesAnalyticsPage ==
  /\ Mount("SalesAnalyticsPage", Defaults, "")
  /\ UNCHANGED <<liveInsights, sourceData>>

fetchAnalytics(i) == FetchKeepingState("SalesAnalyticsPage", i, ResponseBody(i))

\* --- BestSelling
MountBestSelling ==
  /\ Mount("BestSelling", Defaults, "")
  /\ UNCHANGED <<liveInsights, sourceData>>

fetchBestSelling(i) == FetchKeepingState("BestSelling", i, ResponseBody(i))

\* --- InventoryTable
MountInventoryTable ==
  /\ Mount("InventoryTable", EmptyList, "")
  /\ UNCHANGED <<liveInsights, sourceData>>

fetchInventory(i) == FetchKeepingState("InventoryTable", i, ResponseField(i))

\* --- BaristaSchedule
MountBaristaSchedule ==
  /\ Mount("BaristaSchedule", EmptyList, "")
  /\ UNCHANGED <<liveInsights, sourceData>>

fetchSchedule(i) == FetchKeepingState("BaristaSchedule", i, ResponseField(i))


\* FetchWithFallback whose catch block only logs
FetchWithFallbackKeepsData(c, i, value, failed) ==
  /\ Awaiting(c, "fetch", i)
  /\ data' = IF failed THEN data ELSE value
  /\ loading' = FALSE
  /\ Settled(i)
  /\ UNCHANGED <<generating, error, alerts, liveInsights, sourceData>>

\* try { set(field) } catch { set(fallback) } finally { setLoading(false) }
FetchWithFallback(c, i, value, failed) ==
  /\ Awaiting(c, "fetch", i)
  /\ data' = IF failed THEN Fallback ELSE value
  /\ loading' = FALSE
  /\ Settled(i)
  /\ UNCHANGED <<generating, error, alerts, liveInsights, sourceData>>

\* setPeriod(p) with p other than the current period re-runs the effect:
\* setLoading(true) and a request for p
SelectPeriod(c, p) ==
  /\ mounted = c
  /\ p # period
  /\ Len(reqs) < MaxRequests
  /\ period' = p
  /\ loading' = TRUE
  /\ reqs' = Append(reqs, NewRequest("fetch", p))
  /\ triggers' = triggers + 1
  /\ UNCHANGED <<mounted, generating, error, alerts, data, liveInsights,
                 sourceData>>
  /\ UNCHANGED <<appVars, authVars, backendVars, dbVars, pageVars, insightVars>>

\* --- SalesChart
MountSalesChart ==
  /\ Mount("SalesChart", EmptyList, "month")
  /\ UNCHANGED <<liveInsights, sourceData>>

SalesChartSetPeriod ==
  \E k \in 1..Len(SimplePeriods) : SelectPeriod("SalesChart", SimplePeriods[k])

fetchSalesData(i) ==
  FetchWithFallback("SalesChart", i, ResponseField(i),
                    apiRequestThrows(reqs[i].reply))

\* --- CashFlowChart
MountCashFlowChart ==
  /\ Mount("CashFlowChart", EmptyList, "month")
  /\ UNCHANGED <<liveInsights, sourceData>>

CashFlowSetPeriod ==
  \E k \in 1..Len(CashFlowPeriods) :
    SelectPeriod("CashFlowChart", CashFlowPeriods[k])

fetchCashFlow(i) ==
  FetchWithFallback("CashFlowChart", i, ResponseField(i),
                    apiRequestThrows(reqs[i].reply))

\* --- generate-insights button of AIInsightsPage and AIInsightsPanel
\* the render of AIInsightsPanel calls insights.map once loading is false
RenderThrows ==
  /\ mounted = "AIInsightsPanel"
  /\ ~loading
  /\ data = Undefined

\* GenerateClick that does not disable the button
GenerateClickNoDisable(c) ==
  /\ mounted = c
  /\ Len(reqs) < MaxRequests
  /\ ~RenderThrows
  /\ generating' = generating
  /\ reqs' = Append(reqs, NewRequest("generate", ""))
  /\ triggers' = triggers + 1
  /\ UNCHANGED <<mounted, loading, error, alerts, data, liveInsights,
                 sourceData, period>>
  /\ UNCHANGED <<appVars, authVars, backendVars, dbVars, pageVars, insightVars>>

\* the button is disabled={generating}; the handler starts with
\* setGenerating(true) and awaits apiService.generateInsights()
GenerateClick(c) ==
  /\ mounted = c
  /\ ~generating
  /\ Len(reqs) < MaxRequests
  /\ ~RenderThrows
  /\ generating' = TRUE
  /\ reqs' = Append(reqs, NewRequest("generate", ""))
  /\ triggers' = triggers + 1
  /\ UNCHANGED <<mounted, loading, error, alerts, data, liveInsights,
                 sourceData, period>>
  /\ UNCHANGED <<appVars, authVars, backendVars, dbVars, pageVars, insightVars>>

\* --- AIInsightsPage
MountAIInsightsPage ==
  /\ Mount("AIInsightsPage", EmptyList, "")
  /\ liveInsights' = aiInsights
  /\ sourceData' = Null

\* data.forecast_next_days.map throws inside the try when the field is absent
fetchForecast(i) ==
  FetchWithFallback("AIInsightsPage", i, ChartData(i),
                    apiRequestThrows(reqs[i].reply) \/ reqs[i].reply = "ok_unshaped")

GenerateInsightsClick == GenerateClick("AIInsightsPage")

SourceData(i) == [tag |-> "source", period |-> "", id |-> i]

\* handleGenerateInsights without the finally block
handleGenerateInsightsNoFinally(i) ==
  /\ Awaiting("AIInsightsPage", "generate", i)
  /\ IF apiRequestThrows(reqs[i].reply)
       THEN /\ alerts' = alerts + 1
            /\ UNCHANGED <<sourceData, liveInsights, generating>>
       ELSE IF reqs[i].reply = "ok"
         THEN /\ sourceData' = SourceData(i)
              /\ liveInsights' = MappedInsights(i)
              /\ generating' = FALSE
              /\ UNCHANGED alerts
         ELSE /\ sourceData' \in {Undefined, SourceData(i)}
              /\ alerts' = alerts + 1
              /\ UNCHANGED <<liveInsights, generating>>
  /\ Settled(i)
  /\ UNCHANGED <<loading, error, data>>

\* handleGenerateInsights after its await
handleGenerateInsights(i) ==
  /\ Awaiting("AIInsightsPage", "generate", i)
  /\ IF apiRequestThrows(reqs[i].reply)
       THEN \* catch: alert
            /\ alerts' = alerts + 1
            /\ UNCHANGED <<sourceData, liveInsights>>
       ELSE IF reqs[i].reply = "ok"
         THEN /\ sourceData' = SourceData(i)
              /\ liveInsights' = MappedInsights(i)
              /\ UNCHANGED alerts
         ELSE \* setSourceData ran, then response.insights.map threw
              /\ sourceData' \in {Undefined, SourceData(i)}
              /\ alerts' = alerts + 1
              /\ UNCHANGED liveInsights
  /\ generating' = FALSE
  /\ Settled(i)
  /\ UNCHANGED <<loading, error, data>>

\* --- AIInsightsPanel
MountAIInsightsPanel ==
  /\ Mount("AIInsightsPanel", EmptyList, "")
  /\ UNCHANGED <<liveInsights, sourceData>>

fetchInsights(i) ==
  FetchWithFallback("AIInsightsPanel", i, ResponseField(i),
                    apiRequestThrows(reqs[i].reply))

GenerateReportClick == GenerateClick("AIInsightsPanel")

\* handleGenerateReport that replaces the insights by the fallback on failure
handleGenerateReportFallback(i) ==
  /\ Awaiting("AIInsightsPanel", "generate", i)
  /\ IF apiRequestThrows(reqs[i].reply)
       THEN /\ alerts' = alerts + 1
            /\ data' = Fallback
       ELSE /\ data' = ResponseField(i)
            /\ UNCHANGED alerts
  /\ generating' = FALSE
  /\ Settled(i)
  /\ UNCHANGED <<loading, error, liveInsights, sourceData>>

\* handleGenerateReport after its await
handleGenerateReport(i) ==
  /\ Awaiting("AIInsightsPanel", "generate", i)
  /\ IF apiRequestThrows(reqs[i].reply)
       THEN /\ alerts' = alerts + 1
            /\ UNCHANGED data
       ELSE /\ data' = ResponseField(i)
            /\ UNCHANGED alerts
  /\ generating' = FALSE
  /\ Settled(i)
  /\ UNCHANGED <<loading, error, liveInsights, sourceData>>

\* --- PredictiveInsightsPanel
MountPredictiveInsightsPanel ==
  /\ Mount("PredictiveInsightsPanel", Null, "")
  /\ UNCHANGED <<liveInsights, sourceData>>

\* err instanceof Error ? err.message : "Unknown error"
ErrorMessage(reply) ==
  CASE reply = "http_error" -> "Failed to fetch insights"
    [] reply = "network_error" -> "Failed to fetch"
    [] reply = "bad_json" -> "Unexpected token"
    [] OTHER -> NoError

\* fetchPredictiveInsightsStart without setError(null)
fetchPredictiveInsightsStartKeepsError ==
  /\ mounted = "PredictiveInsightsPanel"
  /\ Len(reqs) < MaxRequests
  /\ loading' = TRUE
  /\ reqs' = Append(reqs, NewRequest("fetch", ""))
  /\ triggers' = triggers + 1
  /\ UNCHANGED <<mounted, generating, error, alerts, data, liveInsights,
                 sourceData, period>>
  /\ UNCHANGED <<appVars, authVars, backendVars, dbVars, pageVars, insightVars>>

\* fetchPredictiveInsights up to its await, from the Retry or Refresh button
fetchPredictiveInsightsStart ==
  /\ mounted = "PredictiveInsightsPanel"
  /\ Len(reqs) < MaxRequests
  /\ loading' = TRUE
  /\ error' = NoError
  /\ reqs' = Append(reqs, NewRequest("fetch", ""))
  /\ triggers' = triggers + 1
  /\ UNCHANGED <<mounted, generating, alerts, data, liveInsights, sourceData,
                 period>>
  /\ UNCHANGED <<appVars, authVars, backendVars, dbVars, pageVars, insightVars>>

\* the error card with its Retry button is rendered when loading is false
\* and error is set
RetryClick ==
  /\ ~loading
  /\ error # NoError
  /\ fetchPredictiveInsightsStart

\* the Refresh button is rendered when loading is false, error is null and
\* data has insights
RefreshClick ==
  /\ ~loading
  /\ error = NoError
  /\ data.tag = "body"
  /\ fetchPredictiveInsightsStart

\* fetchPredictiveInsights that calls itself again after a failure
fetchPredictiveInsightsAutoRetry(i) ==
  /\ Awaiting("PredictiveInsightsPanel", "fetch", i)
  /\ IF apiRequestThrows(reqs[i].reply)
       THEN /\ error' = NoError
            /\ loading' = TRUE
            /\ reqs' = Append([reqs EXCEPT ![i].st = "done", ![i].reply = "none"],
                              NewRequest("fetch", ""))
            /\ UNCHANGED data
       ELSE /\ data' = ResponseBody(i)
            /\ loading' = FALSE
            /\ reqs' = [reqs EXCEPT ![i].st = "done", ![i].reply = "none"]
            /\ UNCHANGED error
  /\ UNCHANGED <<mounted, period, triggers>>
  /\ UNCHANGED <<appVars, authVars, backendVars, dbVars, pageVars, insightVars>>
  /\ UNCHANGED <<generating, alerts, liveInsights, sourceData>>

\* fetchPredictiveInsights after its await
fetchPredictiveInsights(i) ==
  /\ Awaiting("PredictiveInsightsPanel", "fetch", i)
  /\ IF apiRequestThrows(reqs[i].reply)
       THEN /\ error' = ErrorMessage(reqs[i].reply)
            /\ UNCHANGED data
       ELSE /\ data' = ResponseBody(i)
            /\ UNCHANGED error
  /\ loading' = FALSE
  /\ Settled(i)
  /\ UNCHANGED <<generating, alerts, liveInsights, sourceData>>

\* ------------------------------------------------ backend request handlers
\* POST /generate-insights, GET /holidays and GET /weather-forecast. Each
\* request is handled on its own; the handlers share nothing but the database.

Endpoints == {"generate-insights", "holidays", "weather-forecast"}

\* the upstream API of each endpoint: the hosted LLM, the holiday API, the
\* weather API
Upstream(e) ==
  CASE e = "generate-insights" -> "llm"
    [] e = "holidays" -> "holiday-api"
    [] e = "weather-forecast" -> "weather-api"

\* how one outbound call can end: a 2xx with a usable body, a non-success
\* status, an exception (unreachable, reset), a 2xx whose body cannot be parsed
UpstreamOutcomes == {"success", "error_status", "exception", "unparsable"}

NoItems == <<>>

\* the payload made from a usable upstream reply
LivePayload(e) ==
  CASE e = "generate-insights" -> <<"generated", "generated", "generated">>
    [] e = "holidays" -> <<"holiday">>
    [] e = "weather-forecast" -> <<"forecast-day">>

\* the hard-coded payload of each adapter, in the shape of the live one
FallbackPayload(e) ==
  CASE e = "generate-insights" -> <<"template", "template", "template">>
    [] e = "holidays" -> <<"common-holiday">>
    [] e = "weather-forecast" -> <<"default-weather">>

IdleBackend == calls = <<>>

\* a request arrives
Receive(e) ==
  /\ Len(calls) < MaxCalls
  /\ calls' = Append(calls, [endpoint |-> e, pc |-> "received", attempts |-> 0,
                             upstream |-> "none", status |-> 0,
                             items |-> NoItems])
  /\ UNCHANGED <<appVars, authVars, uiVars, dbVars, pageVars, insightVars>>

\* /generate-insights reads the sales data; a database error propagates as
\* a 500
QueryDatabase(i) ==
  /\ calls[i].endpoint = "generate-insights"
  /\ calls[i].pc = "received"
  /\ \E ok \in BOOLEAN :
       calls' = IF ok
                  THEN [calls EXCEPT ![i].pc = "queried"]
                  ELSE [calls EXCEPT ![i].pc = "responded", ![i].status = 500]
  /\ UNCHANGED <<appVars, authVars, uiVars, dbVars, pageVars, insightVars>>

\* the adapter issues its outbound call
CallUpstream(i) ==
  /\ \/ calls[i].endpoint = "generate-insights" /\ calls[i].pc = "queried"
     \/ calls[i].endpoint # "generate-insights" /\ calls[i].pc = "received"
  /\ calls' = [calls EXCEPT ![i].pc = "calling",
                            ![i].attempts = calls[i].attempts + 1]
  /\ UNCHANGED <<appVars, authVars, uiVars, dbVars, pageVars, insightVars>>

\* UpstreamReturns that calls again after a failure
UpstreamReturnsRetry(i) ==
  /\ calls[i].pc = "calling"
  /\ \E o \in UpstreamOutcomes :
       calls' = IF o # "success" /\ calls[i].attempts = 1
                  THEN [calls EXCEPT ![i].attempts = calls[i].attempts + 1]
                  ELSE [calls EXCEPT ![i].pc = "returned", ![i].upstream = o]
  /\ UNCHANGED <<appVars, authVars, uiVars, dbVars, pageVars, insightVars>>

\* the outbound call ends
UpstreamReturns(i) ==
  /\ calls[i].pc = "calling"
  /\ \E o \in UpstreamOutcomes :
       calls' = [calls EXCEPT ![i].pc = "returned", ![i].upstream = o]
  /\ UNCHANGED <<appVars, authVars, uiVars, dbVars, pageVars, insightVars>>

\* Respond that propagates an upstream failure as a 502
RespondPropagating(i) ==
  /\ calls[i].pc = "returned"
  /\ calls' = IF calls[i].upstream = "success"
                THEN [calls EXCEPT ![i].pc = "responded", ![i].status = 200,
                                   ![i].items = LivePayload(calls[i].endpoint)]
                ELSE [calls EXCEPT ![i].pc = "responded", ![i].status = 502]
  /\ UNCHANGED <<appVars, authVars, uiVars, dbVars, pageVars, insightVars>>

\* the adapter's result is returned: the live payload, or the fallback
\* payload on any non-success response or exception
Respond(i) ==
  /\ calls[i].pc = "returned"
  /\ calls' = [calls EXCEPT
                 ![i].pc = "responded",
                 ![i].status = 200,
                 ![i].items = IF calls[i].upstream = "success"
                                THEN LivePayload(calls[i].endpoint)
                                ELSE FallbackPayload(calls[i].endpoint)]
  /\ UNCHANGED <<appVars, authVars, uiVars, dbVars, pageVars, insightVars>>

\* ----------------------------------------------- database and CRUD endpoints
\* The tables of the schema with the columns the endpoints decide on. Each
\* endpoint issues single statements, so a request is served in one step.

\* values a client can put in a request
IngredientNames == {"Coffee Beans (Arabica)", "Oat Milk"}
StockInputs == {-5, 5, 10, 40}
ReorderInputs == {10}
ProductNames == {"Espresso", "Latte"}
\* quantity_needed is counted in thousandths of the ingredient's unit
QuantityInputs == {0, 4, 1000}

\* the sample rows inserted by the schema script (one of each table kept)
SampleIngredients ==
  {[id |-> 1, name |-> "Coffee Beans (Arabica)", stock_quantity |-> 50,
    reorder_level |-> 10]}
SampleProducts == {[id |-> 1, product_name |-> "Espresso"]}
SampleRecipes == {[product_id |-> 1, ingredient_id |-> 1, quantity_needed |-> 20]}

\* the transactions the sales queries read (inserted outside the API)
SampleTransactions == {"t1", "t2"}

InitDb ==
  /\ db = [ingredients |-> SampleIngredients,
           products |-> SampleProducts,
           product_ingredients |-> SampleRecipes,
           transactions |-> SampleTransactions,
           nextIngredientId |-> 2,
           nextProductId |-> 2]
  /\ writes = 0
  /\ lastEndpoint = "none"

\* DECIMAL(10, 2): a value in thousandths is rounded to hundredths on storing
DecimalTwoPlaces(thousandths) ==
  IF thousandths >= 0
    THEN ((thousandths + 5) \div 10) * 10
    ELSE 0 - (((0 - thousandths) + 5) \div 10) * 10

IngredientIds(d) == {r.id : r \in d.ingredients}
ProductIds(d) == {r.id : r \in d.products}

\* ids a request can name: the ids ever handed out
KnownIngredientIds == 1..(db.nextIngredientId - 1)
KnownProductIds == 1..(db.nextProductId - 1)

\* the result of a statement: the tables after it and whether it failed
Done(d) == [db |-> d, ok |-> TRUE]
Failed(d) == [db |-> d, ok |-> FALSE]

\* InsertIngredient on a table whose name column is not UNIQUE
InsertIngredientNoUnique(d, name, stock, reorder) ==
  Done([d EXCEPT
    !.ingredients = @ \cup {[id |-> d.nextIngredientId, name |-> name,
                             stock_quantity |-> stock,
                             reorder_level |-> reorder]},
    !.nextIngredientId = @ + 1])

\* INSERT INTO ingredients: name is UNIQUE, id is AUTO_INCREMENT
InsertIngredient(d, name, stock, reorder) ==
  IF \E r \in d.ingredients : r.name = name
    THEN Failed(d)
    ELSE Done([d EXCEPT
           !.ingredients = @ \cup {[id |-> d.nextIngredientId, name |-> name,
                                    stock_quantity |-> stock,
                                    reorder_level |-> reorder]},
           !.nextIngredientId = @ + 1])

\* UPDATE ingredients SET ... WHERE id = ...
UpdateIngredient(d, id, name, stock, reorder) ==
  IF \E r \in d.ingredients : r.id # id /\ r.name = name
    THEN Failed(d)
    ELSE Done([d EXCEPT
           !.ingredients =
              {IF r.id = id
                 THEN [id |-> id, name |-> name, stock_quantity |-> stock,
                       reorder_level |-> reorder]
                 ELSE r : r \in @}])

\* DELETE FROM ingredients WHERE id = ...: ON DELETE CASCADE on the recipes
DeleteIngredient(d, id) ==
  Done([d EXCEPT
    !.ingredients = {r \in @ : r.id # id},
    !.product_ingredients = {r \in @ : r.ingredient_id # id}])

\* INSERT INTO products: product_name is UNIQUE, id is AUTO_INCREMENT
InsertProduct(d, name) ==
  IF \E r \in d.products : r.product_name = name
    THEN Failed(d)
    ELSE Done([d EXCEPT
           !.products = @ \cup {[id |-> d.nextProductId, product_name |-> name]},
           !.nextProductId = @ + 1])

\* DeleteProduct on a foreign key without ON DELETE CASCADE
DeleteProductNoCascade(d, id) ==
  Done([d EXCEPT !.products = {r \in @ : r.id # id}])

\* DELETE FROM products WHERE id = ...: ON DELETE CASCADE on the recipes
DeleteProduct(d, id) ==
  Done([d EXCEPT
    !.products = {r \in @ : r.id # id},
    !.product_ingredients = {r \in @ : r.product_id # id}])

\* InsertProductIngredient without the key unique_product_ingredient
InsertProductIngredientNoUnique(d, pid, iid, qty) ==
  IF pid \notin ProductIds(d) \/ iid \notin IngredientIds(d)
    THEN Failed(d)
    ELSE Done([d EXCEPT
           !.product_ingredients =
              @ \cup {[product_id |-> pid, ingredient_id |-> iid,
                       quantity_needed |-> qty]}])

\* INSERT INTO product_ingredients: both foreign keys must exist and
\* unique_product_ingredient allows one row per (product_id, ingredient_id)
InsertProductIngredient(d, pid, iid, qty) ==
  IF \/ pid \notin ProductIds(d)
     \/ iid \notin IngredientIds(d)
     \/ \E r \in d.product_ingredients :
          r.product_id = pid /\ r.ingredient_id = iid
    THEN Failed(d)
    ELSE Done([d EXCEPT
           !.product_ingredients =
              @ \cup {[product_id |-> pid, ingredient_id |-> iid,
                       quantity_needed |-> DecimalTwoPlaces(qty)]}])

\* DELETE FROM product_ingredients WHERE product_id = ... AND ingredient_id = ...
DeleteProductIngredient(d, pid, iid) ==
  Done([d EXCEPT
    !.product_ingredients =
       {r \in @ : ~(r.product_id = pid /\ r.ingredient_id = iid)}])

\* IsLowStock that also flags stock equal to the reorder level
IsLowStockAtLevel(r) == r.stock_quantity <= r.reorder_level

\* the derived low-stock flag of an ingredient row
IsLowStock(r) == r.stock_quantity < r.reorder_level

\* GET /ingredients: every row with its is_low_stock flag
GetIngredients(d) ==
  {[id |-> r.id, name |-> r.name, stock_quantity |-> r.stock_quantity,
    reorder_level |-> r.reorder_level, is_low_stock |-> IsLowStock(r)] :
     r \in d.ingredients}

\* IngredientsPage: the count shown in the low-stock banner
lowStockCount(ingredients) == Cardinality({i \in ingredients : i.is_low_stock})

\* GET /products
GetProducts(d) == d.products

\* GET /products/{id}/ingredients: the recipe rows of the product
GetProductIngredients(d, pid) ==
  {r \in d.product_ingredients : r.product_id = pid}

\* the status of a response: a failed statement propagates as a 500
Status(result) == IF result.ok THEN 200 ELSE 500

\* a mutating request is served: its statement is applied
Serve(endpoint, result) ==
  /\ writes < MaxWrites
  /\ db' = result.db
  /\ writes' = writes + 1
  /\ lastEndpoint' = endpoint
  /\ UNCHANGED <<appVars, authVars, uiVars, backendVars, pageVars, insightVars>>

\* ServeRead that prunes the transactions it has aggregated
ServeReadPruning(endpoint) ==
  /\ lastEndpoint' = endpoint
  /\ db' = [db EXCEPT !.transactions = {}]
  /\ UNCHANGED writes
  /\ UNCHANGED <<appVars, authVars, uiVars, backendVars, pageVars, insightVars>>

\* a request that only reads is served
ServeRead(endpoint) ==
  /\ lastEndpoint' = endpoint
  /\ UNCHANGED <<db, writes>>
  /\ UNCHANGED <<appVars, authVars, uiVars, backendVars, pageVars, insightVars>>

PostIngredients ==
  \E name \in IngredientNames, stock \in StockInputs, reorder \in ReorderInputs :
    Serve("POST /ingredients", InsertIngredient(db, name, stock, reorder))

PutIngredient ==
  \E id \in KnownIngredientIds, name \in IngredientNames,
     stock \in StockInputs, reorder \in ReorderInputs :
    Serve("PUT /ingredients/{id}", UpdateIngredient(db, id, name, stock, reorder))

DeleteIngredientById ==
  \E id \in KnownIngredientIds :
    Serve("DELETE /ingredients/{id}", DeleteIngredient(db, id))

PostProducts ==
  \E name \in ProductNames : Serve("POST /products", InsertProduct(db, name))

DeleteProductById ==
  \E id \in KnownProductIds :
    Serve("DELETE /products/{id}", DeleteProduct(db, id))

PostProductIngredients ==
  \E pid \in KnownProductIds, iid \in KnownIngredientIds, qty \in QuantityInputs :
    Serve("POST /products/{id}/ingredients",
          InsertProductIngredient(db, pid, iid, qty))

DeleteProductIngredientById ==
  \E pid \in KnownProductIds, iid \in KnownIngredientIds :
    Serve("DELETE /products/{id}/ingredients/{ingredient_id}",
          DeleteProductIngredient(db, pid, iid))

ReadEndpoints ==
  {"GET /forecast", "GET /ai-insights", "GET /sales-data",
   "GET /dashboard-metrics", "GET /best-selling", "GET /inventory-predictions",
   "GET /barista-schedule", "GET /customer-feedback", "GET /sales-analytics",
   "GET /cash-flow", "GET /predictive-insights", "GET /holidays",
   "GET /weather-forecast", "GET /ingredients", "GET /products",
   "GET /products/{id}/ingredients", "POST /generate-insights"}

MutatingEndpoints ==
  {"POST /ingredients", "PUT /ingredients/{id}", "DELETE /ingredients/{id}",
   "POST /products", "DELETE /products/{id}",
   "POST /products/{id}/ingredients",
   "DELETE /products/{id}/ingredients/{ingredient_id}"}

ReadRequest == \E e \in ReadEndpoints : ServeRead(e)

\* -------------------------------------------------------- IngredientsPage
\* The page with its forms and dialogs, and the requests it sends to the CRUD
\* endpoints. A request in flight is served and its continuation runs in
\* one step; requests in flight complete in any order. The two tabs are
\* local display state and are not modelled: both panes are taken as shown.

\* what the user can type
TypedIngredientNames == {" ", "Oat Milk", "Coffee Beans (Arabica)"}
TypedStock == {-5}
TypedEditedNames == {"", "Oat Milk"}
TypedProductNames == {" ", "Latte"}
TypedQuantities == {-1000, 1000}

\* String.prototype.trim on the names above
Trim(s) == IF s = " " THEN "" ELSE s

NoIngredient ==
  [id |-> 0, name |-> "", stock_quantity |-> 0, reorder_level |-> 0,
   is_low_stock |-> FALSE]
NoProduct == [id |-> 0, product_name |-> ""]

EmptyNewIngredient == [name |-> "", stock_quantity |-> 0, reorder_level |-> 0]
EmptyNewProduct == [product_name |-> ""]
EmptyNewRecipe == [ingredient_id |-> 0, quantity_needed |-> 0]

\* the useState initial values
InitialPageState ==
  [mounted |-> FALSE,
   ingredients |-> {},
   products |-> {},
   selectedProduct |-> NoProduct,
   productIngredients |-> {},
   isAddingIngredient |-> FALSE,
   isAddingProduct |-> FALSE,
   isAddingRecipe |-> FALSE,
   editingIngredient |-> NoIngredient,
   newIngredient |-> EmptyNewIngredient,
   newProduct |-> EmptyNewProduct,
   newRecipe |-> EmptyNewRecipe]

IdlePage ==
  /\ ingredientsPage = InitialPageState
  /\ pending = EmptyBag
  /\ pageAlerts = 0
  /\ pageActions = 0

\* a request of apiService: the call, the id in its path and its body
Request(op, id, body) == [op |-> op, id |-> id, body |-> body]
NoBody == [name |-> "", stock_quantity |-> 0, reorder_level |-> 0,
           ingredient_id |-> 0, quantity_needed |-> 0]
IngredientBody(f) ==
  [NoBody EXCEPT !.name = f.name, !.stock_quantity = f.stock_quantity,
                 !.reorder_level = f.reorder_level]
ProductBody(f) == [NoBody EXCEPT !.name = f.product_name]
RecipeBody(f) ==
  [NoBody EXCEPT !.ingredient_id = f.ingredient_id,
                 !.quantity_needed = f.quantity_needed]

InFlight(op) == {r \in BagToSet(pending) : r.op = op}
Sent(r) == pending (+) SetToBag({r})
Completed(r) == pending (-) SetToBag({r})

\* a modal dialog is open: the page behind it takes no clicks
DialogOpen ==
  \/ ingredientsPage.isAddingIngredient
  \/ ingredientsPage.isAddingProduct
  \/ ingredientsPage.isAddingRecipe
  \/ ingredientsPage.editingIngredient # NoIngredient

\* a click or an entry of the user
UserAction ==
  /\ ingredientsPage.mounted
  /\ pageActions < MaxPageActions
  /\ pageActions' = pageActions + 1
  /\ UNCHANGED <<appVars, authVars, uiVars, backendVars, insightVars>>

\* a step of the user that reaches no endpoint
LocalOnly == UNCHANGED dbVars

\* the endpoint of a request in flight is reached
Served(endpoint, isWrite) ==
  /\ lastEndpoint' = endpoint
  /\ writes' = IF isWrite THEN writes + 1 ELSE writes
  /\ UNCHANGED pageActions
  /\ UNCHANGED <<appVars, authVars, uiVars, backendVars, insightVars>>

\* first render and the mount effect: fetchIngredients(); fetchProducts()
MountIngredientsPage ==
  /\ ~ingredientsPage.mounted
  /\ ingredientsPage' = [ingredientsPage EXCEPT !.mounted = TRUE]
  /\ pending' = SetToBag({Request("getIngredients", 0, NoBody),
                          Request("getProducts", 0, NoBody)})
  /\ UNCHANGED <<pageAlerts, pageActions>>
  /\ UNCHANGED dbVars
  /\ UNCHANGED <<appVars, authVars, uiVars, backendVars, insightVars>>

\* fetchIngredients after its await: the catch only logs
fetchIngredients ==
  \E r \in InFlight("getIngredients"), delivered \in BOOLEAN :
    /\ ingredientsPage' =
         IF delivered
           THEN [ingredientsPage EXCEPT !.ingredients = GetIngredients(db)]
           ELSE ingredientsPage
    /\ pending' = Completed(r)
    /\ Served("GET /ingredients", FALSE)
    /\ UNCHANGED <<db, pageAlerts>>

\* fetchProducts after its await
fetchProducts ==
  \E r \in InFlight("getProducts"), delivered \in BOOLEAN :
    /\ ingredientsPage' =
         IF delivered
           THEN [ingredientsPage EXCEPT !.products = GetProducts(db)]
           ELSE ingredientsPage
    /\ pending' = Completed(r)
    /\ Served("GET /products", FALSE)
    /\ UNCHANGED <<db, pageAlerts>>

\* fetchProductIngredients(productId) after its await
fetchProductIngredients ==
  \E r \in InFlight("getProductIngredients"), delivered \in BOOLEAN :
    /\ ingredientsPage' =
         IF delivered
           THEN [ingredientsPage EXCEPT
                   !.productIngredients = GetProductIngredients(db, r.id)]
           ELSE ingredientsPage
    /\ pending' = Completed(r)
    /\ Served("GET /products/{id}/ingredients", FALSE)
    /\ UNCHANGED <<db, pageAlerts>>

\* --- ingredients: add
OpenAddIngredient ==
  /\ UserAction
  /\ ~DialogOpen
  /\ ingredientsPage' = [ingredientsPage EXCEPT !.isAddingIngredient = TRUE]
  /\ UNCHANGED <<pending, pageAlerts>>
  /\ LocalOnly

CancelAddIngredient ==
  /\ UserAction
  /\ ingredientsPage.isAddingIngredient
  /\ ingredientsPage' = [ingredientsPage EXCEPT !.isAddingIngredient = FALSE]
  /\ UNCHANGED <<pending, pageAlerts>>
  /\ LocalOnly

ChangeNewIngredientName ==
  /\ UserAction
  /\ ingredientsPage.isAddingIngredient
  /\ \E name \in TypedIngredientNames :
       /\ name # ingredientsPage.newIngredient.name
       /\ ingredientsPage' = [ingredientsPage EXCEPT !.newIngredient.name = name]
  /\ UNCHANGED <<pending, pageAlerts>>
  /\ LocalOnly

ChangeNewIngredientStock ==
  /\ UserAction
  /\ ingredientsPage.isAddingIngredient
  /\ \E stock \in TypedStock :
       /\ stock # ingredientsPage.newIngredient.stock_quantity
       /\ ingredientsPage' =
            [ingredientsPage EXCEPT !.newIngredient.stock_quantity = stock]
  /\ UNCHANGED <<pending, pageAlerts>>
  /\ LocalOnly

\* handleAddIngredient up to its await
handleAddIngredient ==
  /\ UserAction
  /\ ingredientsPage.isAddingIngredient
  /\ IF Trim(ingredientsPage.newIngredient.name) = ""
       THEN /\ pageAlerts' = pageAlerts + 1
            /\ UNCHANGED pending
       ELSE /\ pending' = Sent(Request("addIngredient", 0,
                                       IngredientBody(ingredientsPage.newIngredient)))
            /\ UNCHANGED pageAlerts
  /\ UNCHANGED ingredientsPage
  /\ LocalOnly

\* handleAddIngredient after its await
addIngredientSettles ==
  \E r \in InFlight("addIngredient"), delivered \in BOOLEAN :
    LET result == InsertIngredient(db, r.body.name, r.body.stock_quantity,
                                   r.body.reorder_level) IN
      /\ db' = IF delivered THEN result.db ELSE db
      /\ pageAlerts' = pageAlerts + 1
      /\ IF delivered /\ result.ok
           THEN /\ ingredientsPage' =
                     [ingredientsPage EXCEPT !.isAddingIngredient = FALSE,
                                             !.newIngredient = EmptyNewIngredient]
                /\ pending' = Completed(r) (+)
                                SetToBag({Request("getIngredients", 0, NoBody)})
           ELSE /\ pending' = Completed(r)
                /\ UNCHANGED ingredientsPage
      /\ Served("POST /ingredients", delivered)

\* --- ingredients: edit, update, delete
EditClick ==
  /\ UserAction
  /\ ~DialogOpen
  /\ \E ingredient \in ingredientsPage.ingredients :
       ingredientsPage' = [ingredientsPage EXCEPT !.editingIngredient = ingredient]
  /\ UNCHANGED <<pending, pageAlerts>>
  /\ LocalOnly

CancelEdit ==
  /\ UserAction
  /\ ingredientsPage.editingIngredient # NoIngredient
  /\ ingredientsPage' = [ingredientsPage EXCEPT !.editingIngredient = NoIngredient]
  /\ UNCHANGED <<pending, pageAlerts>>
  /\ LocalOnly

ChangeEditingName ==
  /\ UserAction
  /\ ingredientsPage.editingIngredient # NoIngredient
  /\ \E name \in TypedEditedNames :
       /\ name # ingredientsPage.editingIngredient.name
       /\ ingredientsPage' = [ingredientsPage EXCEPT !.editingIngredient.name = name]
  /\ UNCHANGED <<pending, pageAlerts>>
  /\ LocalOnly

ChangeEditingStock ==
  /\ UserAction
  /\ ingredientsPage.editingIngredient # NoIngredient
  /\ \E stock \in TypedStock :
       /\ stock # ingredientsPage.editingIngredient.stock_quantity
       /\ ingredientsPage' =
            [ingredientsPage EXCEPT !.editingIngredient.stock_quantity = stock]
  /\ UNCHANGED <<pending, pageAlerts>>
  /\ LocalOnly

\* handleUpdateIngredient up to its await: only editingIngredient is tested
handleUpdateIngredient ==
  /\ UserAction
  /\ ingredientsPage.editingIngredient # NoIngredient
  /\ pending' = Sent(Request("updateIngredient",
                             ingredientsPage.editingIngredient.id,
                             IngredientBody(ingredientsPage.editingIngredient)))
  /\ UNCHANGED <<ingredientsPage, pageAlerts>>
  /\ LocalOnly

\* handleUpdateIngredient after its await
updateIngredientSettles ==
  \E r \in InFlight("updateIngredient"), delivered \in BOOLEAN :
    LET result == UpdateIngredient(db, r.id, r.body.name, r.body.stock_quantity,
                                   r.body.reorder_level) IN
      /\ db' = IF delivered THEN result.db ELSE db
      /\ IF delivered /\ result.ok
           THEN /\ ingredientsPage' =
                     [ingredientsPage EXCEPT !.editingIngredient = NoIngredient]
                /\ pending' = Completed(r) (+)
                                SetToBag({Request("getIngredients", 0, NoBody)})
                /\ UNCHANGED pageAlerts
           ELSE /\ pending' = Completed(r)
                /\ pageAlerts' = pageAlerts + 1
                /\ UNCHANGED ingredientsPage
      /\ Served("PUT /ingredients/{id}", delivered)

\* handleDeleteIngredient up to its await: confirm() may be declined
handleDeleteIngredient ==
  /\ UserAction
  /\ ~DialogOpen
  /\ \E ingredient \in ingredientsPage.ingredients, confirmed \in BOOLEAN :
       pending' = IF confirmed
                    THEN Sent(Request("deleteIngredient", ingredient.id, NoBody))
                    ELSE pending
  /\ UNCHANGED <<ingredientsPage, pageAlerts>>
  /\ LocalOnly

\* handleDeleteIngredient after its await
deleteIngredientSettles ==
  \E r \in InFlight("deleteIngredient"), delivered \in BOOLEAN :
    /\ db' = IF delivered THEN DeleteIngredient(db, r.id).db ELSE db
    /\ IF delivered
         THEN /\ pending' = Completed(r) (+)
                              SetToBag({Request("getIngredients", 0, NoBody)})
              /\ UNCHANGED pageAlerts
         ELSE /\ pending' = Completed(r)
              /\ pageAlerts' = pageAlerts + 1
    /\ UNCHANGED ingredientsPage
    /\ Served("DELETE /ingredients/{id}", delivered)

\* --- products
OpenAddProduct ==
  /\ UserAction
  /\ ~DialogOpen
  /\ ingredientsPage' = [ingredientsPage EXCEPT !.isAddingProduct = TRUE]
  /\ UNCHANGED <<pending, pageAlerts>>
  /\ LocalOnly

CancelAddProduct ==
  /\ UserAction
  /\ ingredientsPage.isAddingProduct
  /\ ingredientsPage' = [ingredientsPage EXCEPT !.isAddingProduct = FALSE]
  /\ UNCHANGED <<pending, pageAlerts>>
  /\ LocalOnly

ChangeNewProductName ==
  /\ UserAction
  /\ ingredientsPage.isAddingProduct
  /\ \E name \in TypedProductNames :
       /\ name # ingredientsPage.newProduct.product_name
       /\ ingredientsPage' = [ingredientsPage EXCEPT !.newProduct.product_name = name]
  /\ UNCHANGED <<pending, pageAlerts>>
  /\ LocalOnly

\* handleAddProduct up to its await
handleAddProduct ==
  /\ UserAction
  /\ ingredientsPage.isAddingProduct
  /\ IF Trim(ingredientsPage.newProduct.product_name) = ""
       THEN /\ pageAlerts' = pageAlerts + 1
            /\ UNCHANGED pending
       ELSE /\ pending' = Sent(Request("addProduct", 0,
                                       ProductBody(ingredientsPage.newProduct)))
            /\ UNCHANGED pageAlerts
  /\ UNCHANGED ingredientsPage
  /\ LocalOnly

\* handleAddProduct after its await
addProductSettles ==
  \E r \in InFlight("addProduct"), delivered \in BOOLEAN :
    LET result == InsertProduct(db, r.body.name) IN
      /\ db' = IF delivered THEN result.db ELSE db
      /\ pageAlerts' = pageAlerts + 1
      /\ IF delivered /\ result.ok
           THEN /\ ingredientsPage' =
                     [ingredientsPage EXCEPT !.isAddingProduct = FALSE,
                                             !.newProduct = EmptyNewProduct]
                /\ pending' = Completed(r) (+)
                                SetToBag({Request("getProducts", 0, NoBody)})
           ELSE /\ pending' = Completed(r)
                /\ UNCHANGED ingredientsPage
      /\ Served("POST /products", delivered)

\* selectProduct(product)
selectProduct ==
  /\ UserAction
  /\ ~DialogOpen
  /\ \E product \in ingredientsPage.products :
       /\ ingredientsPage' = [ingredientsPage EXCEPT !.selectedProduct = product]
       /\ pending' = Sent(Request("getProductIngredients", product.id, NoBody))
  /\ UNCHANGED pageAlerts
  /\ LocalOnly

\* --- recipe of the selected product
OpenAddRecipe ==
  /\ UserAction
  /\ ~DialogOpen
  /\ ingredientsPage.selectedProduct # NoProduct
  /\ ingredientsPage' = [ingredientsPage EXCEPT !.isAddingRecipe = TRUE]
  /\ UNCHANGED <<pending, pageAlerts>>
  /\ LocalOnly

CancelAddRecipe ==
  /\ UserAction
  /\ ingredientsPage.isAddingRecipe
  /\ ingredientsPage' = [ingredientsPage EXCEPT !.isAddingRecipe = FALSE]
  /\ UNCHANGED <<pending, pageAlerts>>
  /\ LocalOnly

ChangeRecipeIngredient ==
  /\ UserAction
  /\ ingredientsPage.isAddingRecipe
  /\ \E ing \in ingredientsPage.ingredients :
       /\ ing.id # ingredientsPage.newRecipe.ingredient_id
       /\ ingredientsPage' = [ingredientsPage EXCEPT !.newRecipe.ingredient_id = ing.id]
  /\ UNCHANGED <<pending, pageAlerts>>
  /\ LocalOnly

ChangeRecipeQuantity ==
  /\ UserAction
  /\ ingredientsPage.isAddingRecipe
  /\ \E qty \in TypedQuantities :
       /\ qty # ingredientsPage.newRecipe.quantity_needed
       /\ ingredientsPage' = [ingredientsPage EXCEPT !.newRecipe.quantity_needed = qty]
  /\ UNCHANGED <<pending, pageAlerts>>
  /\ LocalOnly

\* handleAddRecipeIngredient up to its await
handleAddRecipeIngredient ==
  /\ UserAction
  /\ ingredientsPage.isAddingRecipe
  /\ IF \/ ingredientsPage.selectedProduct = NoProduct
        \/ ingredientsPage.newRecipe.ingredient_id = 0
        \/ ingredientsPage.newRecipe.quantity_needed <= 0
       THEN /\ pageAlerts' = pageAlerts + 1
            /\ UNCHANGED pending
       ELSE /\ pending' = Sent(Request("addProductIngredient",
                                       ingredientsPage.selectedProduct.id,
                                       RecipeBody(ingredientsPage.newRecipe)))
            /\ UNCHANGED pageAlerts
  /\ UNCHANGED ingredientsPage
  /\ LocalOnly

\* handleAddRecipeIngredient after its await: the re-fetch names the product
\* that was selected when the button was clicked
addProductIngredientSettles ==
  \E r \in InFlight("addProductIngredient"), delivered \in BOOLEAN :
    LET result == InsertProductIngredient(db, r.id, r.body.ingredient_id,
                                          r.body.quantity_needed) IN
      /\ db' = IF delivered THEN result.db ELSE db
      /\ pageAlerts' = pageAlerts + 1
      /\ IF delivered /\ result.ok
           THEN /\ ingredientsPage' =
                     [ingredientsPage EXCEPT !.isAddingRecipe = FALSE,
                                             !.newRecipe = EmptyNewRecipe]
                /\ pending' = Completed(r) (+)
                     SetToBag({Request("getProductIngredients", r.id, NoBody)})
           ELSE /\ pending' = Completed(r)
                /\ UNCHANGED ingredientsPage
      /\ Served("POST /products/{id}/ingredients", delivered)

\* handleRemoveRecipeIngredient up to its await
handleRemoveRecipeIngredient ==
  /\ UserAction
  /\ ~DialogOpen
  /\ ingredientsPage.selectedProduct # NoProduct
  /\ \E ing \in ingredientsPage.productIngredients, confirmed \in BOOLEAN :
       pending' =
         IF confirmed
           THEN Sent(Request("removeProductIngredient",
                             ingredientsPage.selectedProduct.id,
                             [NoBody EXCEPT !.ingredient_id = ing.ingredient_id]))
           ELSE pending
  /\ UNCHANGED <<ingredientsPage, pageAlerts>>
  /\ LocalOnly

\* handleRemoveRecipeIngredient after its await
removeProductIngredientSettles ==
  \E r \in InFlight("removeProductIngredient"), delivered \in BOOLEAN :
    /\ db' = IF delivered
               THEN DeleteProductIngredient(db, r.id, r.body.ingredient_id).db
               ELSE db
    /\ IF delivered
         THEN /\ pending' = Completed(r) (+)
                   SetToBag({Request("getProductIngredients", r.id, NoBody)})
              /\ UNCHANGED pageAlerts
         ELSE /\ pending' = Completed(r)
              /\ pageAlerts' = pageAlerts + 1
    /\ UNCHANGED ingredientsPage
    /\ Served("DELETE /products/{id}/ingredients/{ingredient_id}", delivered)

\* ---------------------------------------------------- /predictive-insights
\* The handler of one request runs five steps one after the other. Requests
\* are handled on their own: nothing is shared between two of them, so the
\* steps of concurrent requests interleave freely.

\* the steps of the pipeline, in the order the handler runs them
PipelineOrder ==
  <<"holiday-call", "weather-call", "sql-aggregation", "prompt-assembly",
    "llm-call">>

\* how the LLM call of a request can end
LlmOutcomes == {"success", "failed", "unparsable"}

NoPrompt == <<>>

IdleInsights ==
  /\ pipelines = <<>>
  /\ llmRequests = <<>>

\* a request arrives
ReceivePredictiveInsights ==
  /\ Len(pipelines) < MaxInsightRequests
  /\ pipelines' = Append(pipelines,
                         [steps |-> <<>>, holidays |-> "none",
                          weather |-> "none", sales |-> "none",
                          prompt |-> NoPrompt, response |-> "none"])
  /\ UNCHANGED llmRequests
  /\ UNCHANGED <<appVars, authVars, uiVars, backendVars, dbVars, pageVars>>

\* the step a request runs next
NextStep(i) ==
  IF Len(pipelines[i].steps) < Len(PipelineOrder)
    THEN PipelineOrder[Len(pipelines[i].steps) + 1]
    ELSE "respond"

Ran(i, step) == [pipelines EXCEPT ![i].steps = Append(pipelines[i].steps, step)]

\* (a) the holiday adapter: the live list, or the canned one after a failure
HolidayCall(i) ==
  /\ NextStep(i) = "holiday-call"
  /\ \E result \in {"live", "fallback"} :
       pipelines' = [Ran(i, "holiday-call") EXCEPT ![i].holidays = result]
  /\ UNCHANGED llmRequests
  /\ UNCHANGED <<appVars, authVars, uiVars, backendVars, dbVars, pageVars>>

\* (b) the weather adapter: the live forecast, or the canned pattern
WeatherCall(i) ==
  /\ NextStep(i) = "weather-call"
  /\ \E result \in {"live", "fallback"} :
       pipelines' = [Ran(i, "weather-call") EXCEPT ![i].weather = result]
  /\ UNCHANGED llmRequests
  /\ UNCHANGED <<appVars, authVars, uiVars, backendVars, dbVars, pageVars>>

\* (c) the aggregation queries: the sales of the database, or mock sales
\* data when the database is unavailable
SqlAggregation(i) ==
  /\ NextStep(i) = "sql-aggregation"
  /\ \E result \in {"live", "mock"} :
       pipelines' = [Ran(i, "sql-aggregation") EXCEPT ![i].sales = result]
  /\ UNCHANGED llmRequests
  /\ UNCHANGED <<appVars, authVars, uiVars, backendVars, dbVars, pageVars>>

\* (d) the three results concatenated into the prompt
PromptAssembly(i) ==
  /\ NextStep(i) = "prompt-assembly"
  /\ pipelines' =
       [Ran(i, "prompt-assembly") EXCEPT
          ![i].prompt = <<pipelines[i].sales, pipelines[i].holidays,
                          pipelines[i].weather>>]
  /\ UNCHANGED llmRequests
  /\ UNCHANGED <<appVars, authVars, uiVars, backendVars, dbVars, pageVars>>

\* LlmCall that joins the call of a request already waiting with the same
\* prompt instead of making its own
LlmCallCoalesced(i) ==
  /\ NextStep(i) = "llm-call"
  /\ pipelines' = Ran(i, "llm-call")
  /\ llmRequests' =
       IF \E j \in 1..Len(pipelines) :
            /\ j # i
            /\ NextStep(j) = "respond"
            /\ pipelines[j].response = "none"
            /\ pipelines[j].prompt = pipelines[i].prompt
         THEN llmRequests
         ELSE Append(llmRequests, i)
  /\ UNCHANGED <<appVars, authVars, uiVars, backendVars, dbVars, pageVars>>

\* (e) the prompt forwarded to the hosted LLM: one call of this request
LlmCall(i) ==
  /\ NextStep(i) = "llm-call"
  /\ pipelines' = Ran(i, "llm-call")
  /\ llmRequests' = Append(llmRequests, i)
  /\ UNCHANGED <<appVars, authVars, uiVars, backendVars, dbVars, pageVars>>

\* the LLM call ends and the handler answers: the reply as it came, the
\* template insights after a failed call, a generic failure after a reply
\* that cannot be parsed
RespondPredictiveInsights(i) ==
  /\ NextStep(i) = "respond"
  /\ pipelines[i].response = "none"
  /\ \E o \in LlmOutcomes :
       pipelines' =
         [pipelines EXCEPT ![i].response =
            CASE o = "success" -> "insights"
              [] o = "failed" -> "template"
              [] o = "unparsable" -> "failure"]
  /\ UNCHANGED llmRequests
  /\ UNCHANGED <<appVars, authVars, uiVars, backendVars, dbVars, pageVars>>

NextApp ==
  \/ LoginSubmit
  \/ SignupSubmit
  \/ SwitchToSignup
  \/ SwitchToLogin
  \/ SidebarSelect
  \/ MenuClick
  \/ ToggleDropdown
  \/ SidebarLogout
  \/ HeaderSignOut
  \/ \E i \in 1..Len(logouts) : LogoutDelivered(i)
  \/ \E i \in 1..Len(logouts) : LogoutNetworkError(i)
  \/ \E i \in 1..Len(logouts) : handleLogoutFinish(i)

NextUi ==
  \/ MountDashboardPage
  \/ MountSalesAnalyticsPage
  \/ MountBestSelling
  \/ MountInventoryTable
  \/ MountBaristaSchedule
  \/ MountSalesChart
  \/ MountCashFlowChart
  \/ MountAIInsightsPage
  \/ MountAIInsightsPanel
  \/ MountPredictiveInsightsPanel
  \/ \E i \in 1..Len(reqs) : ServerReplies(i)
  \/ \E i \in 1..Len(reqs) : fetchMetrics(i)
  \/ \E i \in 1..Len(reqs) : fetchAnalytics(i)
  \/ \E i \in 1..Len(reqs) : fetchBestSelling(i)
  \/ \E i \in 1..Len(reqs) : fetchInventory(i)
  \/ \E i \in 1..Len(reqs) : fetchSchedule(i)
  \/ \E i \in 1..Len(reqs) : fetchSalesData(i)
  \/ \E i \in 1..Len(reqs) : fetchCashFlow(i)
  \/ \E i \in 1..Len(reqs) : fetchForecast(i)
  \/ \E i \in 1..Len(reqs) : fetchInsights(i)
  \/ \E i \in 1..Len(reqs) : fetchPredictiveInsights(i)
  \/ \E i \in 1..Len(reqs) : handleGenerateInsights(i)
  \/ \E i \in 1..Len(reqs) : handleGenerateReport(i)
  \/ SalesChartSetPeriod
  \/ CashFlowSetPeriod
  \/ GenerateInsightsClick
  \/ GenerateReportClick
  \/ RetryClick
  \/ RefreshClick

Init ==
  /\ InitApp
  /\ IdleUi
  /\ IdleBackend
  /\ InitDb
  /\ IdlePage /\ IdleInsights

SpecApp == Init /\ [][NextApp]_vars

\* the data-fetching components, which exist only while authenticated; the
\* App shell stays where it starts
InitUi ==
  /\ Init
  /\ isAuthenticated

SpecUi == InitUi /\ [][NextUi]_vars

\* the request handlers of the backend; the browser side stays where it starts
NextBackend ==
  \/ \E e \in Endpoints : Receive(e)
  \/ \E i \in 1..Len(calls) : QueryDatabase(i)
  \/ \E i \in 1..Len(calls) : CallUpstream(i)
  \/ \E i \in 1..Len(calls) : UpstreamReturns(i)
  \/ \E i \in 1..Len(calls) : Respond(i)

InitBackend ==
  /\ Init
  /\ isAuthenticated

SpecBackend == InitBackend /\ [][NextBackend]_vars

\* the CRUD endpoints and the reading endpoints over the database
NextDb ==
  \/ PostIngredients
  \/ PutIngredient
  \/ DeleteIngredientById
  \/ PostProducts
  \/ DeleteProductById
  \/ PostProductIngredients
  \/ DeleteProductIngredientById
  \/ ReadRequest

InitDbSpec ==
  /\ Init
  /\ isAuthenticated

SpecDb == InitDbSpec /\ [][NextDb]_vars

\* the Ingredients page over the database
NextIngredientsPage ==
  \/ MountIngredientsPage
  \/ fetchIngredients
  \/ fetchProducts
  \/ fetchProductIngredients
  \/ OpenAddIngredient
  \/ CancelAddIngredient
  \/ ChangeNewIngredientName
  \/ ChangeNewIngredientStock
  \/ handleAddIngredient
  \/ addIngredientSettles
  \/ EditClick
  \/ CancelEdit
  \/ ChangeEditingName
  \/ ChangeEditingStock
  \/ handleUpdateIngredient
  \/ updateIngredientSettles
  \/ handleDeleteIngredient
  \/ deleteIngredientSettles
  \/ OpenAddProduct
  \/ CancelAddProduct
  \/ ChangeNewProductName
  \/ handleAddProduct
  \/ addProductSettles
  \/ selectProduct
  \/ OpenAddRecipe
  \/ CancelAddRecipe
  \/ ChangeRecipeIngredient
  \/ ChangeRecipeQuantity
  \/ handleAddRecipeIngredient
  \/ addProductIngredientSettles
  \/ handleRemoveRecipeIngredient
  \/ removeProductIngredientSettles

InitIngredientsPage ==
  /\ Init
  /\ isAuthenticated

SpecIngredientsPage == InitIngredientsPage /\ [][NextIngredientsPage]_vars

\* concurrent /predictive-insights requests
NextInsights ==
  \/ ReceivePredictiveInsights
  \/ \E i \in 1..Len(pipelines) : HolidayCall(i)
  \/ \E i \in 1..Len(pipelines) : WeatherCall(i)
  \/ \E i \in 1..Len(pipelines) : SqlAggregation(i)
  \/ \E i \in 1..Len(pipelines) : PromptAssembly(i)
  \/ \E i \in 1..Len(pipelines) : LlmCall(i)
  \/ \E i \in 1..Len(pipelines) : RespondPredictiveInsights(i)

InitInsights ==
  /\ Init
  /\ isAuthenticated

SpecInsights == InitInsights /\ [][NextInsights]_vars

\* every POST /logout eventually settles and its continuation runs
FairSpecApp ==
  /\ SpecApp
  /\ WF_vars(\E i \in 1..Len(logouts) :
               LogoutDelivered(i) \/ LogoutNetworkError(i))
  /\ WF_vars(\E i \in 1..Len(logouts) : handleLogoutFinish(i))


\* the continuation of request i of the mounted component
RequestContinues(i) ==
  \/ fetchMetrics(i)
  \/ fetchAnalytics(i)
  \/ fetchBestSelling(i)
  \/ fetchInventory(i)
  \/ fetchSchedule(i)
  \/ fetchSalesData(i)
  \/ fetchCashFlow(i)
  \/ fetchForecast(i)
  \/ fetchInsights(i)
  \/ fetchPredictiveInsights(i)
  \/ handleGenerateInsights(i)
  \/ handleGenerateReport(i)

\* every request is eventually answered or fails, and the continuation of an
\* answered request runs; the user is never obliged to click
FairSpecUi ==
  /\ SpecUi
  /\ WF_vars(\E i \in 1..Len(reqs) : ServerReplies(i))
  /\ WF_vars(\E i \in 1..Len(reqs) : RequestContinues(i))
\* ------------------------------------------------------------- App: claims
GatedComponents == {"Sidebar", "Header"} \cup PageComponents

\* C1: the sidebar, the header and the dashboard pages are rendered only
\* when isAuthenticated is true; when it is false exactly one of LoginPage
\* (authView = login) and SignupPage (authView = signup) is rendered and
\* nothing else, whatever activePage is.
C1_AuthGate ==
  /\ (Rendered \cap GatedComponents # {}) => isAuthenticated
  /\ ~isAuthenticated =>
       /\ Cardinality(Rendered) = 1
       /\ ("LoginPage" \in Rendered) <=> (authView = "login")
       /\ ("SignupPage" \in Rendered) <=> (authView = "signup")

\* C1 witness: logged out on the signup view with a non-default activePage
C1_Witness ==
  /\ ~isAuthenticated
  /\ authView = "signup"
  /\ activePage = "ai-insights"
  /\ Rendered = {"SignupPage"}

\* C2: isAuthenticated is true exactly when local storage holds an
\* authToken, at startup and after any sequence of handleLogin,
\* handleSignup and handleLogout calls.
C2_AuthIffToken == isAuthenticated <=> (localStorage.authToken # NoToken)

\* C2 witness: logged in again after a completed logout
C2_Witness ==
  /\ Len(logouts) >= 1
  /\ logouts[1].pc = "done"
  /\ isAuthenticated
  /\ localStorage.authToken \notin {NoToken, logouts[1].token}

LoggedOutOnLoginView ==
  /\ localStorage = [authToken |-> NoToken, user |-> NoUser]
  /\ ~isAuthenticated
  /\ authView = "login"

\* C3: when the POST /logout of a handleLogout invocation has settled (any
\* status, or a rejected fetch) its continuation removes authToken and user,
\* sets isAuthenticated to false and authView to login; and, the request
\* eventually settling, every pending logout leads to the login page.
C3_LogoutAlwaysClears ==
  /\ [][\A i \in 1..Len(logouts) :
          (logouts[i].pc \in {"responded", "threw"} /\ logouts'[i].pc = "done")
            => LoggedOutOnLoginView']_vars
  /\ \A i \in 1..MaxLogoutCalls :
       (Len(logouts) >= i /\ logouts[i].pc = "fetching") ~> LoggedOutOnLoginView

\* C3 witness: a logout whose request failed has completed on the login page
C3_Witness ==
  /\ \E i \in 1..Len(logouts) :
       logouts[i].pc = "done" /\ logouts[i].status # 200
  /\ LoggedOutOnLoginView

\* C4: a token validates exactly when POST /login issued it and no
\* POST /logout has revoked it since; a logout with token T ends the session
\* of T and of no other token.
C4_TokenValidIffIssuedNotRevoked ==
  \A t \in 1..(MaxTokens + 1) : Verify(t) <=> (t \in issued /\ t \notin revoked)

\* C4 witness: one token revoked by a logout while another session is valid
C4_Witness ==
  \E t1, t2 \in issued :
    /\ t1 \in revoked
    /\ ~Verify(t1)
    /\ t2 # t1
    /\ Verify(t2)

\* ------------------------------------------- data-fetching components: claims
InsightWidgets == {"AIInsightsPage", "AIInsightsPanel"}

\* the generate requests of the mounted component that have not completed
InFlightGenerate ==
  {i \in 1..Len(reqs) : reqs[i].op = "generate" /\ reqs[i].st # "done"}

\* the insights the widget displays
DisplayedInsights == IF mounted = "AIInsightsPage" THEN liveInsights ELSE data

\* C5: in AIInsightsPage and AIInsightsPanel generating is true exactly while
\* a generate request of the component is in flight, so the button is disabled
\* from the click until the request has settled, enabled again afterwards on
\* success and on failure, and never two generate requests are in flight.
C5_GeneratingIffInFlight ==
  mounted \in InsightWidgets =>
    /\ generating <=> (InFlightGenerate # {})
    /\ Cardinality(InFlightGenerate) <= 1

\* C5 witness: a second generate request in flight after a first one failed
C5_Witness ==
  /\ mounted \in InsightWidgets
  /\ alerts = 1
  /\ generating
  /\ \E i, j \in 1..Len(reqs) :
       /\ i < j
       /\ reqs[i].op = "generate" /\ reqs[i].st = "done"
       /\ reqs[j].op = "generate" /\ reqs[j].st = "sent"

\* the generation of request i fails: the service call throws, or handling
\* the response throws (AIInsightsPage maps over response.insights)
GenerationFailed(i) ==
  \/ apiRequestThrows(reqs[i].reply)
  \/ mounted = "AIInsightsPage" /\ reqs[i].reply = "ok_unshaped"

\* C6: when insight generation fails an alert is shown, the insights
\* displayed stay as they were and the button is enabled again.
C6_FailureKeepsInsights ==
  [][\A i \in 1..Len(reqs) :
       ( /\ mounted \in InsightWidgets
         /\ reqs[i].op = "generate"
         /\ reqs[i].st = "replied"
         /\ reqs'[i].st = "done"
         /\ GenerationFailed(i) )
       => /\ alerts' = alerts + 1
          /\ DisplayedInsights' = DisplayedInsights
          /\ ~generating']_vars

\* C6 witness: generated insights still displayed after a later failed run
C6_Witness ==
  /\ mounted \in InsightWidgets
  /\ Len(reqs) = 3
  /\ reqs[3].op = "generate"
  /\ reqs[3].st = "done"
  /\ alerts = 1
  /\ DisplayedInsights.id = 2
  /\ ~generating

FallbackComponents ==
  {"SalesChart", "CashFlowChart", "AIInsightsPage", "AIInsightsPanel"}

KeepStateComponents ==
  {"DashboardPage", "SalesAnalyticsPage", "InventoryTable", "BaristaSchedule",
   "BestSelling"}

\* the continuation of request i runs in this step, after a failed request
FailedRequestCompletes(i) ==
  /\ reqs[i].st = "replied"
  /\ reqs'[i].st = "done"
  /\ apiRequestThrows(reqs[i].reply)

CannedData == {Defaults, Fallback, EmptyList}

LlmOutcomesAnswered ==
  {calls[i].upstream : i \in {j \in 1..Len(calls) :
                                 /\ calls[j].endpoint = "generate-insights"
                                 /\ calls[j].pc = "responded"
                                 /\ calls[j].attempts > 0}}

AdapterEndpoints == {"holidays", "weather-forecast"}

\* C8: GET /holidays and GET /weather-forecast never answer with a 5xx: each
\* response is a 200 made after exactly one upstream attempt, and carries
\* the endpoint's fallback payload when that attempt did not succeed.
C8_AdaptersNever5xx ==
  \A i \in 1..Len(calls) :
    calls[i].endpoint \in AdapterEndpoints
    => /\ calls[i].status < 500
       /\ calls[i].attempts <= 1
       /\ calls[i].pc = "responded"
            => /\ calls[i].status = 200
               /\ calls[i].attempts = 1
               /\ calls[i].items # NoItems
               /\ calls[i].upstream # "success"
                    => calls[i].items = FallbackPayload(calls[i].endpoint)

\* C8 witness: /holidays answered with the fallback after an exception of the
\* holiday API and /weather-forecast after an error status of the weather API
C8_Witness ==
  \E i, j \in 1..Len(calls) :
    /\ calls[i].endpoint = "holidays"
    /\ calls[i].pc = "responded"
    /\ calls[i].upstream = "exception"
    /\ calls[i].items = FallbackPayload("holidays")
    /\ calls[j].endpoint = "weather-forecast"
    /\ calls[j].pc = "responded"
    /\ calls[j].upstream = "error_status"
    /\ calls[j].items = FallbackPayload("weather-forecast")

\* ------------------------------------------- PredictiveInsightsPanel: refresh
\* C11 as stated: a mounted PredictiveInsightsPanel that has sent n requests
\* eventually sends another one without any user action (periodic re-fetch).
C11_PeriodicRefetch ==
  \A n \in 1..(MaxRequests - 1) :
    (mounted = "PredictiveInsightsPanel" /\ Len(reqs) = n) ~> (Len(reqs) > n)

\* ------------------------------------------------ database and CRUD: claims
\* C12: no two stored ingredients share a name; a create or update that would
\* duplicate a stored name fails with an error status and leaves the tables
\* unchanged, and a create with a name not yet stored succeeds and the next
\* GET /ingredients includes the new ingredient.
C12_IngredientNamesUnique ==
  /\ \A r1, r2 \in db.ingredients : r1.name = r2.name => r1 = r2
  /\ \A name \in IngredientNames, stock \in StockInputs, reorder \in ReorderInputs :
       LET created == InsertIngredient(db, name, stock, reorder) IN
         IF \E r \in db.ingredients : r.name = name
           THEN /\ Status(created) >= 400
                /\ created.db = db
           ELSE /\ Status(created) = 200
                /\ \E row \in GetIngredients(created.db) :
                     /\ row.name = name
                     /\ row.id \notin IngredientIds(db)
                     /\ row.stock_quantity = stock
                     /\ row.reorder_level = reorder
  /\ \A r1, r2 \in db.ingredients, stock \in StockInputs, reorder \in ReorderInputs :
       r1 # r2 =>
         LET updated == UpdateIngredient(db, r1.id, r2.name, stock, reorder) IN
           /\ Status(updated) >= 400
           /\ updated.db = db

\* C12 witness: POST /ingredients with the name of the stored ingredient was
\* served and stored nothing
C12_Witness ==
  /\ lastEndpoint = "POST /ingredients"
  /\ writes = 1
  /\ db.nextIngredientId = 2
  /\ db.ingredients = SampleIngredients

\* C13: in the list returned by GET /ingredients is_low_stock is true exactly
\* for the ingredients whose stock_quantity is strictly below reorder_level,
\* and the banner count of the Ingredients page computed from that list is
\* the number of those ingredients.
C13_LowStockFlag ==
  /\ \A row \in GetIngredients(db) :
       row.is_low_stock <=> (row.stock_quantity < row.reorder_level)
  /\ lowStockCount(GetIngredients(db)) =
       Cardinality({r \in db.ingredients : r.stock_quantity < r.reorder_level})

\* C13 witness: one stored ingredient is below its reorder level and another
\* one is exactly at it
C13_Witness ==
  /\ lastEndpoint = "GET /ingredients"
  /\ \E r \in db.ingredients : r.stock_quantity = r.reorder_level
  /\ \E r \in db.ingredients :
       r.stock_quantity >= 0 /\ r.stock_quantity < r.reorder_level
  /\ lowStockCount(GetIngredients(db)) = 1

\* C14: every product_ingredients row references a stored product and a
\* stored ingredient, and GET /products/{id}/ingredients of a deleted
\* product returns no rows.
C14_RecipeRowsReferenceParents ==
  /\ \A r \in db.product_ingredients :
       /\ r.product_id \in ProductIds(db)
       /\ r.ingredient_id \in IngredientIds(db)
  /\ \A pid \in KnownProductIds \ ProductIds(db) :
       GetProductIngredients(db, pid) = {}
  /\ \A pid \in ProductIds(db) :
       GetProductIngredients(DeleteProduct(db, pid).db, pid) = {}
  /\ \A iid \in IngredientIds(db) :
       \A r \in DeleteIngredient(db, iid).db.product_ingredients :
         r.ingredient_id # iid

\* C14 witness: the sample product, which had a recipe row, was deleted
C14_Witness ==
  /\ lastEndpoint = "DELETE /products/{id}"
  /\ writes = 1
  /\ 1 \notin ProductIds(db)
  /\ db.product_ingredients = {}
  /\ db.ingredients = SampleIngredients

\* C15: a recipe holds at most one row per ingredient; adding an ingredient
\* that is already in the recipe fails and leaves the tables unchanged, and
\* removing (product, ingredient) removes exactly that row.
C15_OneRowPerRecipeIngredient ==
  /\ \A r1, r2 \in db.product_ingredients :
       (r1.product_id = r2.product_id /\ r1.ingredient_id = r2.ingredient_id)
         => r1 = r2
  /\ \A r \in db.product_ingredients, qty \in QuantityInputs :
       LET added == InsertProductIngredient(db, r.product_id, r.ingredient_id, qty) IN
         /\ Status(added) >= 400
         /\ added.db = db
  /\ \A r \in db.product_ingredients :
       DeleteProductIngredient(db, r.product_id, r.ingredient_id).db =
         [db EXCEPT !.product_ingredients = @ \ {r}]

\* C15 witness: adding the ingredient of the sample recipe to it again was
\* served and stored nothing
C15_Witness ==
  /\ lastEndpoint = "POST /products/{id}/ingredients"
  /\ writes = 1
  /\ db.product_ingredients = SampleRecipes

\* C16 as stated: every stored ingredient has stock_quantity >= 0 and
\* reorder_level >= 0 and every stored product_ingredients row has
\* quantity_needed > 0.
C16_QuantitiesInRange ==
  /\ \A r \in db.ingredients : r.stock_quantity >= 0 /\ r.reorder_level >= 0
  /\ \A r \in db.product_ingredients : r.quantity_needed > 0

LacksRequiredField(r) ==
  \/ r.op \in {"addIngredient", "updateIngredient"} /\ Trim(r.body.name) = ""
  \/ r.op = "addProduct" /\ Trim(r.body.name) = ""
  \/ r.op = "addProductIngredient" /\
       (r.id = 0 \/ r.body.ingredient_id = 0 \/ r.body.quantity_needed <= 0)

\* a click that a handler answered with a validation alert
ValidationAlert ==
  /\ pageActions' # pageActions
  /\ pageAlerts' # pageAlerts

\* C17: every create or update submitted from the Ingredients page without a
\* required field (ingredient create or update with an empty or blank name,
\* product create with an empty name, add-to-recipe without a product, an
\* ingredient or a positive quantity) is stopped before a request is sent,
\* and the alert that stops it changes no dialog, form value, list or row.
C17_InvalidSubmissionsStopped ==
  /\ [](\A r \in BagToSet(pending) : ~LacksRequiredField(r))
  /\ [][ValidationAlert =>
          /\ pending' = pending
          /\ ingredientsPage' = ingredientsPage
          /\ db' = db]_vars

\* ------------------------------------------------------------------
\* Claims about /predictive-insights
\* ------------------------------------------------------------------

IsPrefix(s, t) == Len(s) <= Len(t) /\ \A k \in 1..Len(s) : s[k] = t[k]

\* the calls the hosted LLM received from request i
LlmCallsOf(i) == Cardinality({k \in 1..Len(llmRequests) : llmRequests[k] = i})

OtherPageIds == {"", "reports", "Dashboard"}

\* C22: while authenticated exactly one page component is rendered, the one
\* the switch of renderPage gives for activePage; activePage starts as
\* dashboard, always is one of the seven menu ids, changes only in a sidebar
\* selection, and a value outside the menu renders the dashboard page.
C22_OnePageByActivePage ==
  /\ activePage = "dashboard"
  /\ [](/\ activePage \in MenuIds
        /\ Cardinality(MenuIds) = 7
        /\ isAuthenticated =>
             /\ Cardinality(Rendered \cap PageComponents) = 1
             /\ Rendered \cap PageComponents = {renderPage(activePage)}
        /\ \A view \in {"login", "signup"} :
             AppRender(TRUE, view, activePage) \cap PageComponents
               = {renderPage(activePage)}
        /\ \A id \in OtherPageIds : renderPage(id) = "DashboardPage")
  /\ [][activePage' # activePage => SidebarSelect]_vars

\* C22 witness: logged in again after a logout, with the settings page
\* selected before the logout still the active page
C22_Witness ==
  /\ isAuthenticated
  /\ Len(logouts) >= 1
  /\ logouts[1].pc = "done"
  /\ activePage = "settings"
  /\ Rendered = {"Sidebar", "Header", "SettingsPage"}

\* C23: the completion of a handleLogout invocation that was started in an
\* earlier session (the stored authToken is no longer the one the invocation
\* read) leaves the new authToken in local storage and isAuthenticated true.
C23_LogoutEndsOwnSessionOnly ==
  [][\A i \in 1..Len(logouts) :
       ( /\ logouts[i].pc \in {"responded", "threw"}
         /\ logouts'[i].pc = "done"
         /\ localStorage.authToken # NoToken
         /\ localStorage.authToken # logouts[i].token )
       => /\ localStorage' = localStorage
          /\ isAuthenticated']_vars

\* ------------------------------------------------------------------
\* Claims about overlapping requests of one component
\* ------------------------------------------------------------------

AllSettled == \A i \in 1..Len(reqs) : reqs[i].st = "done"

PeriodCharts == {"SalesChart", "CashFlowChart"}

\* C24: in SalesChart and CashFlowChart, once every request has settled a
\* displayed series that was fetched is the one fetched for the selected
\* period, and loading is false only when no request is in flight.
C24_SelectedPeriodDisplayed ==
  mounted \in PeriodCharts =>
    /\ (AllSettled /\ data.tag = "fetched") => data.period = period
    /\ ~loading => AllSettled

\* the insights list d came with the answer to a generate request
FromGenerate(d) ==
  /\ d.tag = "fetched"
  /\ d.id \in 1..Len(reqs)
  /\ reqs[d.id].op = "generate"

\* C25: in AIInsightsPanel the continuation of the GET /ai-insights sent on
\* mount never replaces insights that came with a generate response.
C25_MountFetchKeepsGenerated ==
  [][\A i \in 1..Len(reqs) :
       ( /\ mounted = "AIInsightsPanel"
         /\ reqs[i].op = "fetch"
         /\ reqs[i].st = "replied"
         /\ reqs'[i].st = "done"
         /\ FromGenerate(data) )
       => data' = data]_vars

\* the components with a fetch in a mount effect with no dependencies
MountFetchers ==
  {"DashboardPage", "SalesAnalyticsPage", "InventoryTable", "AIInsightsPanel",
   "BaristaSchedule", "BestSelling", "AIInsightsPage",
   "PredictiveInsightsPanel"}

\* C27: each component that fetches on mount is mounted with loading true,
\* the continuation of its fetch sets loading to false whether the request
\* succeeded or failed, and, every request settling eventually, a loading
\* component eventually is not loading.
C27_LoadingEnds ==
  /\ [][(mounted = "none" /\ mounted' \in MountFetchers) => loading']_vars
  /\ [][\A i \in 1..Len(reqs) :
          ( /\ mounted \in MountFetchers
            /\ reqs[i].op = "fetch"
            /\ reqs[i].st = "replied"
            /\ reqs'[i].st = "done" )
          => ~loading']_vars
  /\ (mounted \in MountFetchers /\ loading) ~> ~loading

\* C27 witness: the fetch of DashboardPage failed, the default metrics stay
\* and loading is false
C27_Witness ==
  /\ mounted = "DashboardPage"
  /\ reqs[1].st = "done"
  /\ data = Defaults
  /\ ~loading

Unsettled == {i \in 1..Len(reqs) : reqs[i].st # "done"}

\* the continuation of request i runs in this step
Continues(i) == reqs[i].st = "replied" /\ reqs'[i].st = "done"

C29_SourceDataWithInsights ==
  [][\A i \in 1..Len(reqs) :
       ( /\ mounted = "AIInsightsPage"
         /\ reqs[i].op = "generate"
         /\ Continues(i) )
       => /\ \/ /\ sourceData' = SourceData(i)
                /\ liveInsights' = MappedInsights(i)
             \/ /\ sourceData' = sourceData
                /\ liveInsights' = liveInsights
          /\ alerts' # alerts => sourceData' = sourceData]_vars

\* the values of the insights state that are lists
InsightLists == {"empty", "fetched", "fallback"}

\* C30: in AIInsightsPanel the insights state is a list in every reachable
\* state, so that insights.map of the render never throws.
C30_InsightsIsAList ==
  mounted = "AIInsightsPanel" =>
    /\ data.tag \in InsightLists
    /\ ~RenderThrows

\* ------------------------------------------------------------------
\* Claims about the recipe pane of the Ingredients page
\* ------------------------------------------------------------------

RecipeRequests ==
  {"getProductIngredients", "addProductIngredient", "removeProductIngredient"}

RecipeSettled == \A r \in BagToSet(pending) : r.op \notin RecipeRequests

\* C26: on the Ingredients page, once every recipe request has settled the
\* displayed productIngredients are rows of the selected product, so that a
\* remove click names an ingredient of the selected product's recipe.
C26_RecipeOfSelectedProduct ==
  RecipeSettled =>
    \A row \in ingredientsPage.productIngredients :
      row.product_id = ingredientsPage.selectedProduct.id

====
